---------------------------- MODULE Spec2Model ----------------------------
(***************************************************************************)
(* A model of lts_functions.py: the Level-of-Traffic-Stress classifiers    *)
(* and scorers over a table of OpenStreetMap edges.                        *)
(*                                                                         *)
(* A data frame is a function from its index (the row labels) to rows; a   *)
(* row is a function from column names to cells.  Categorical cells are    *)
(* strings, with NaN the missing value.  Cells of the columns lanes,       *)
(* maxspeed and width are tagged records, because the code distinguishes   *)
(* their Python types: [t |-> "nan"], [t |-> "int", v |-> n],              *)
(* [t |-> "float", v |-> hundred-thousandths], [t |-> "str", v |-> characters],     *)
(* [t |-> "list", v |-> cells].                                            *)
(***************************************************************************)
EXTENDS Integers, Sequences, FiniteSets, TLC

VARIABLES
    gdf_edges,            \* the input frame handed to biking_permitted
    gdf_allowed,          \* biking_permitted's first result
    gdf_not_allowed,      \* biking_permitted's second result
    separated,            \* is_separated_path's first result
    not_separated,        \* is_separated_path's second result
    to_analyze,           \* is_bike_lane's first result
    no_lane,              \* is_bike_lane's second result
    parking_detected,     \* parking_present's first result
    parking_not_detected, \* parking_present's second result
    re_out,               \* the results of re-running a classifier on its own output
    done,                 \* the calls made so far
    raised                \* the exception that ended the run, or "none"

vars == <<gdf_edges, gdf_allowed, gdf_not_allowed, separated, not_separated,
          to_analyze, no_lane, parking_detected, parking_not_detected,
          re_out, done, raised>>

---------------------------------------------------------------------------
(* Cells *)

NaN == "NaN"
NaNv == [t |-> "nan", v |-> 0]
IntCell(n) == [t |-> "int", v |-> n]
FloatCell(f) == [t |-> "float", v |-> f]
StrCell(s) == [t |-> "str", v |-> s]
ListCell(s) == [t |-> "list", v |-> s]

isna(c) == c.t = "nan"

\* series == 'text'
eq_str(c, s) == c.t = "str" /\ c.v = s

\* The text values the model draws, as sequences of characters.
S_national == <<"n", "a", "t", "i", "o", "n", "a", "l">>
S_35_mph == <<"3", "5", " ", "m", "p", "h">>
S_10_knots == <<"1", "0", " ", "k", "n", "o", "t", "s">>
S_50 == <<"5", "0">>
S_30 == <<"3", "0">>
S_2 == <<"2">>
S_3 == <<"3">>
S_narrow == <<"n", "a", "r", "r", "o", "w">>
S_nan == <<"n", "a", "n">>

Digits == <<"0", "1", "2", "3", "4", "5", "6", "7", "8", "9">>
IsDigit(c) == \E k \in 1..Len(Digits) : Digits[k] = c
DigitVal(c) == (CHOOSE k \in 1..Len(Digits) : Digits[k] = c) - 1

RECURSIVE DigitsVal(_)
DigitsVal(s) ==
    IF s = <<>> THEN 0
    ELSE 10 * DigitsVal(SubSeq(s, 1, Len(s) - 1)) + DigitVal(s[Len(s)])

AllDigits(s) == s # <<>> /\ \A k \in 1..Len(s) : IsDigit(s[k])

\* str.strip(): the text without its leading and trailing blanks.
RECURSIVE strip(_)
strip(s) ==
    IF s = <<>> THEN s
    ELSE IF Head(s) = " " THEN strip(Tail(s))
    ELSE IF s[Len(s)] = " " THEN strip(SubSeq(s, 1, Len(s) - 1))
    ELSE s

\* sub in s
contains(s, sub) ==
    \E k \in 0..(Len(s) - Len(sub)) : SubSeq(s, k + 1, k + Len(sub)) = sub

\* s.split()[0]: the first blank-separated word; IndexError when there is none.
RECURSIVE first_word(_)
first_word(s) ==
    IF s = <<>> THEN <<>>
    ELSE IF Head(s) = " " THEN <<>>
    ELSE <<Head(s)>> \o first_word(Tail(s))

RECURSIVE lstrip(_)
lstrip(s) == IF s # <<>> /\ Head(s) = " " THEN lstrip(Tail(s)) ELSE s

split_0(s) == first_word(lstrip(s))

---------------------------------------------------------------------------
(* Frames *)

Columns(df) ==
    IF DOMAIN df = {} THEN {} ELSE DOMAIN df[CHOOSE i \in DOMAIN df : TRUE]

\* df[mask], for the set of rows where the mask is True
Take(df, rows) == [i \in rows |-> df[i]]

\* One row of df[col] = values
SetCell(row, col, value) == (col :> value) @@ row

\* df.drop(columns = col)
DropColumn(df, col) ==
    [i \in DOMAIN df |-> [c \in DOMAIN df[i] \ {col} |-> df[i][c]]]

EmptyFrame == [i \in {} |-> NaN]

\* The column names of the model's frames that contain the substring
\* 'cycleway', and those that contain 'parking' (columns.str.contains).
cycleway_tags(df) == Columns(df) \cap {"cycleway", "cycleway:right"}
parking_tags(df) == Columns(df) \cap {"parking:lane"}

\* np.select that lets a later condition overwrite an earlier one.
RECURSIVE np_select_last(_, _, _)
np_select_last(conditions, values, default) ==
    IF conditions = <<>> THEN default
    ELSE IF conditions[Len(conditions)] THEN values[Len(conditions)]
    ELSE np_select_last(SubSeq(conditions, 1, Len(conditions) - 1), values, default)

\* np.select: the value of the first condition that is true, else the default.
RECURSIVE np_select(_, _, _)
np_select(conditions, values, default) ==
    IF conditions = <<>> THEN default
    ELSE IF Head(conditions) THEN Head(values)
    ELSE np_select(Tail(conditions), Tail(values), default)

---------------------------------------------------------------------------
(* The splitting classifiers *)

biking_permitted_conditions(row) ==
    << row["bicycle"] = "no",                                        \* p2
       row["access"] = "no",                                         \* p6
       row["highway"] = "motorway",                                  \* p3
       row["highway"] = "motorway_link",                             \* p4
       row["highway"] = "proposed",                                  \* p7
       /\ row["footway"] = "sidewalk"
       /\ ~(row["bicycle"] = "yes")
       /\ (row["highway"] = "footway" \/ row["highway"] = "path") >> \* p5

biking_permitted_values == <<"p2", "p6", "p3", "p4", "p7", "p5">>

biking_permitted_rule(row) ==
    np_select(biking_permitted_conditions(row), biking_permitted_values, "p0")

\* The allowed rows taken to be those not given p2.
allowed_rows_not_p2(df) == {i \in DOMAIN df : df[i]["rule"] # "p2"}

\* The not_allowed rows taken to be those not given p2.
not_allowed_rows_not_p2(df) == {i \in DOMAIN df : ~(df[i]["rule"] = "p2")}

\* The rows of the two results, on the frame that holds the rule column.
allowed_rows(df) == {i \in DOMAIN df : df[i]["rule"] = "p0"}
not_allowed_rows(df) == {i \in DOMAIN df : ~(df[i]["rule"] = "p0")}

\* biking_permitted(gdf_edges): the argument is given its rule column in place;
\* the two results are new frames.
biking_permitted(df) ==
    LET ruled == [i \in DOMAIN df |-> SetCell(df[i], "rule", biking_permitted_rule(df[i]))]
    IN  [arg |-> ruled,
         allowed |-> Take(ruled, allowed_rows(ruled)),
         not_allowed |-> Take(ruled, not_allowed_rows(ruled))]

\* np.any(gdf_edges[cycleway_tags] == value, axis = 1), for one row
any_cycleway(df, row, value) == \E c \in cycleway_tags(df) : row[c] = value

is_separated_path_conditions(df, row) ==
    << row["highway"] = "cycleway",                                    \* s3
       row["highway"] = "path",                                        \* s1
       row["highway"] = "footway" /\ ~(row["footway"] = "crossing"),   \* s2
       any_cycleway(df, row, "track"),                                 \* s7
       any_cycleway(df, row, "opposite_track") >>                      \* s8

is_separated_path_values == <<"s3", "s1", "s2", "s7", "s8">>

is_separated_path_rule(df, row) ==
    np_select(is_separated_path_conditions(df, row), is_separated_path_values, "s0")

separated_rows(df) == {i \in DOMAIN df : df[i]["rule"] # "s0"}
not_separated_rows(df) == {i \in DOMAIN df : df[i]["rule"] = "s0"}

\* is_separated_path(gdf_edges): the argument's rule column is overwritten in
\* place; not_separated is returned without the rule column.
is_separated_path(df) ==
    LET ruled == [i \in DOMAIN df |->
                     SetCell(df[i], "rule", is_separated_path_rule(df, df[i]))]
    IN  [arg |-> ruled,
         separated |-> Take(ruled, separated_rows(ruled)),
         not_separated |-> DropColumn(Take(ruled, not_separated_rows(ruled)), "rule")]

lane_identifiers ==
    {"crossing", "lane", "left", "opposite", "opposite_lane", "right", "yes"}

\* The rows where lane_check is True.
lane_check(df) ==
    IF "shoulder:access:bicycle" \in Columns(df)
    THEN {i \in DOMAIN df :
             \/ \E c \in cycleway_tags(df) : df[i][c] \in lane_identifiers
             \/ df[i]["shoulder:access:bicycle"] = "yes"}
    ELSE {i \in DOMAIN df :
             \E c \in cycleway_tags(df) : df[i][c] \in lane_identifiers}

\* ~mask taken for the mask itself.
Not_same(df, rows) == rows

\* The rows of ~mask, for the rows where mask is True.
Not(df, rows) == DOMAIN df \ rows

is_bike_lane(df) ==
    [to_analyze |-> Take(df, lane_check(df)),
     no_lane |-> Take(df, Not(df, lane_check(df)))]

parking_identifiers == {"yes", "parallel", "perpendicular", "diagonal", "marked"}

\* The rows where parking_check is True.
parking_check(df) ==
    {i \in DOMAIN df : \E c \in parking_tags(df) : df[i][c] \in parking_identifiers}

parking_present(df) ==
    [parking_detected |-> Take(df, parking_check(df)),
     parking_not_detected |-> Take(df, Not(df, parking_check(df)))]

---------------------------------------------------------------------------
(* The attribute normalizers *)

default_lanes == 2
national == 40
local == 50
motorway == 100
primary == 80
secondary == 80

\* A conversion's outcome: the value, or the exception it raises.
Ok(n) == [err |-> "none", v |-> n]
Err(e) == [err |-> e, v |-> 0]

\* np.min in place of np.max.
SeqMin(s) == CHOOSE m \in {s[k] : k \in DOMAIN s} : \A k \in DOMAIN s : m <= s[k]

SeqMax(s) == CHOOSE m \in {s[k] : k \in DOMAIN s} : \A k \in DOMAIN s : s[k] <= m

\* int(x) for one scalar, as np.array(x, dtype = 'int') converts it: a float is
\* truncated, NaN and text that is no integer numeral raise ValueError.
scalar_to_int(c) ==
    CASE c.t = "int" -> Ok(c.v)
      [] c.t = "float" -> Ok(c.v \div 100000)
      [] c.t = "str" -> IF AllDigits(strip(c.v)) THEN Ok(DigitsVal(strip(c.v)))
                        ELSE Err("ValueError")
      [] OTHER -> Err("ValueError")

\* np.max(np.array(x, dtype = 'int')): the largest of a multi-valued cell.
array_int_max(c) ==
    IF c.t = "list"
    THEN LET each == [k \in DOMAIN c.v |-> scalar_to_int(c.v[k])]
         IN  IF \E k \in DOMAIN each : each[k].err # "none" THEN Err("ValueError")
             ELSE Ok(SeqMax([k \in DOMAIN each |-> each[k].v]))
    ELSE scalar_to_int(c)

fillna(c, value) == IF isna(c) THEN IntCell(value) ELSE c

\* A call's outcome: the exception raised ("none" when it returned) and the
\* frame as the call left it.
Returned(df) == [raised |-> "none", df |-> df]
Raised(e, df) == [raised |-> e, df |-> df]

lanes_assumed_of(row, default) == array_int_max(fillna(row["lanes"], default))

\* get_lanes(gdf_edges, default_lanes): adds lanes_assumed in place.
get_lanes(df, default) ==
    IF \E i \in DOMAIN df : lanes_assumed_of(df[i], default).err # "none"
    THEN Raised("ValueError", df)
    ELSE Returned([i \in DOMAIN df |->
                     SetCell(df[i], "lanes_assumed", lanes_assumed_of(df[i], default).v)])

get_max_speed_conditions(row) ==
    << eq_str(row["maxspeed"], S_national),
       isna(row["maxspeed"]) /\ row["highway"] = "motorway",
       isna(row["maxspeed"]) /\ row["highway"] = "primary",
       isna(row["maxspeed"]) /\ row["highway"] = "secondary",
       isna(row["maxspeed"]) >>

\* The defaults in another order than the conditions: local first.
get_max_speed_values_local_first ==
    <<IntCell(local), IntCell(motorway), IntCell(primary), IntCell(secondary),
      IntCell(national)>>

get_max_speed_values ==
    <<IntCell(national), IntCell(motorway), IntCell(primary), IntCell(secondary),
      IntCell(local)>>

maxspeed_assumed_of(row) ==
    array_int_max(np_select(get_max_speed_conditions(row), get_max_speed_values,
                            row["maxspeed"]))

\* get_max_speed(gdf_edges): adds maxspeed_assumed in place.
get_max_speed(df) ==
    IF \E i \in DOMAIN df : maxspeed_assumed_of(df[i]).err # "none"
    THEN Raised("ValueError", df)
    ELSE Returned([i \in DOMAIN df |->
                     SetCell(df[i], "maxspeed_assumed", maxspeed_assumed_of(df[i]).v)])

\* get_lanes then get_max_speed, as each scorer starts; the frame keeps what
\* the calls before an exception added.
resolve(df) ==
    LET l == get_lanes(df, default_lanes)
    IN  IF l.raised # "none" THEN l ELSE get_max_speed(l.df)

---------------------------------------------------------------------------
(* The scoring procedures *)

\* series <= bound, for one cell of width; the bound is in hundred-thousandths.  NaN
\* compares False; a text cell makes the comparison raise TypeError.
width_le(c, bound) ==
    CASE c.t = "float" -> c.v <= bound
      [] c.t = "int" -> c.v * 100000 <= bound
      [] OTHER -> FALSE

\* series.map(rule_dict): NaN for a rule the dictionary has no entry for.
map_rule(rule_dict, rule) ==
    IF rule \in DOMAIN rule_dict THEN IntCell(rule_dict[rule]) ELSE NaNv

\* One row of the rule and lts columns a scorer adds.
score(row, rule, rule_dict) ==
    SetCell(SetCell(row, "rule", rule), "lts", map_rule(rule_dict, rule))

with_parking_conditions(row) ==
    << row["lanes_assumed"] >= 3 /\ row["maxspeed_assumed"] <= 55,
       width_le(row["width"], 410000),
       width_le(row["width"], 425000),
       /\ width_le(row["width"], 450000)
       /\ row["maxspeed_assumed"] <= 40 /\ row["highway"] = "residential",
       row["maxspeed_assumed"] > 40 /\ row["maxspeed_assumed"] <= 50,
       row["maxspeed_assumed"] > 50 /\ row["maxspeed_assumed"] <= 55,
       row["maxspeed_assumed"] > 55,
       row["highway"] # "residential" >>

with_parking_values == <<"b2", "b3", "b4", "b5", "b6", "b7", "b8", "b9">>

with_parking_rule_dict ==
    [r \in {"b1", "b2", "b3", "b4", "b5", "b6", "b7", "b8", "b9"} |->
        CASE r = "b1" -> 1 [] r = "b2" -> 3 [] r = "b3" -> 3 [] r = "b4" -> 2
          [] r = "b5" -> 2 [] r = "b6" -> 2 [] r = "b7" -> 3 [] r = "b8" -> 4
          [] r = "b9" -> 3]

bike_lane_analysis_with_parking(df) ==
    LET r == resolve(df)
    IN  IF r.raised # "none" THEN r
        ELSE IF \E i \in DOMAIN r.df : r.df[i]["width"].t = "str"
        THEN Raised("TypeError", r.df)
        ELSE Returned([i \in DOMAIN r.df |->
                 score(r.df[i],
                       np_select(with_parking_conditions(r.df[i]), with_parking_values, "b1"),
                       with_parking_rule_dict)])

\* gdf_edges.loc[<width is a str>, 'width'] = np.nan
coerce_width(df) ==
    [i \in DOMAIN df |->
        IF df[i]["width"].t = "str" THEN SetCell(df[i], "width", NaNv) ELSE df[i]]

\* isinstance(x, float): NaN is a float, an integer is not.
is_float(c) == c.t \in {"float", "nan"}

no_parking_conditions(row) ==
    << row["lanes_assumed"] >= 3 /\ row["maxspeed_assumed"] <= 65,
       is_float(row["width"]) /\ width_le(row["width"], 170000),
       row["maxspeed_assumed"] > 50 /\ row["maxspeed_assumed"] <= 65,
       row["maxspeed_assumed"] > 65,
       row["highway"] # "residential" >>

no_parking_values == <<"c3", "c4", "c5", "c6", "c7">>

no_parking_rule_dict ==
    [r \in {"c1", "c3", "c4", "c5", "c6", "c7"} |->
        CASE r = "c1" -> 1 [] r = "c3" -> 3 [] r = "c4" -> 2 [] r = "c5" -> 3
          [] r = "c6" -> 4 [] r = "c7" -> 3]

bike_lane_analysis_no_parking(df) ==
    LET r == resolve(df)
    IN  IF r.raised # "none" THEN r
        ELSE LET w == coerce_width(r.df)
             IN  Returned([i \in DOMAIN w |->
                     score(w[i],
                           np_select(no_parking_conditions(w[i]), no_parking_values, "c1"),
                           no_parking_rule_dict)])

mixed_traffic_conditions(row) ==
    << row["motor_vehicle"] = "no",
       row["highway"] = "pedestrian",
       row["highway"] = "footway" /\ row["footway"] = "crossing",
       row["highway"] = "service" /\ row["service"] = "alley",
       row["highway"] = "track",
       /\ row["maxspeed_assumed"] <= 50 /\ row["highway"] = "service"
       /\ row["service"] = "parking_aisle",
       /\ row["maxspeed_assumed"] <= 50 /\ row["highway"] = "service"
       /\ row["service"] = "driveway",
       row["maxspeed_assumed"] <= 35 /\ row["highway"] = "service",
       /\ row["maxspeed_assumed"] <= 40 /\ row["lanes_assumed"] <= 3
       /\ row["highway"] = "residential",
       row["maxspeed_assumed"] <= 40 /\ row["lanes_assumed"] <= 3,
       row["maxspeed_assumed"] <= 40 /\ row["lanes_assumed"] <= 5,
       row["maxspeed_assumed"] <= 40 /\ row["lanes_assumed"] > 5,
       /\ row["maxspeed_assumed"] <= 50 /\ row["lanes_assumed"] < 3
       /\ row["highway"] = "residential",
       row["maxspeed_assumed"] <= 50 /\ row["lanes_assumed"] <= 3,
       row["maxspeed_assumed"] <= 50 /\ row["lanes_assumed"] > 3,
       row["maxspeed_assumed"] > 50 >>

mixed_traffic_values ==
    <<"m17", "m13", "m14", "m2", "m15", "m3", "m4", "m16", "m5", "m6", "m7", "m8",
      "m9", "m10", "m11", "m12">>

\* The dictionary without its entry for m12.
mixed_traffic_rule_dict_no_m12 ==
    [r \in {"m17", "m13", "m14", "m2", "m15", "m3", "m4", "m16", "m5", "m6", "m7",
            "m8", "m9", "m10", "m11"} |->
        CASE r = "m17" -> 1 [] r = "m13" -> 1 [] r = "m14" -> 2 [] r = "m2" -> 2
          [] r = "m15" -> 2 [] r = "m3" -> 2 [] r = "m4" -> 2 [] r = "m16" -> 2
          [] r = "m5" -> 2 [] r = "m6" -> 3 [] r = "m7" -> 3 [] r = "m8" -> 4
          [] r = "m9" -> 2 [] r = "m10" -> 3 [] r = "m11" -> 4]

\* The dictionary with m10 scored 2, as m9 is.
mixed_traffic_rule_dict_m10_2 ==
    [r \in {"m17", "m13", "m14", "m2", "m15", "m3", "m4", "m16", "m5", "m6", "m7",
            "m8", "m9", "m10", "m11", "m12"} |->
        CASE r = "m17" -> 1 [] r = "m13" -> 1 [] r = "m14" -> 2 [] r = "m2" -> 2
          [] r = "m15" -> 2 [] r = "m3" -> 2 [] r = "m4" -> 2 [] r = "m16" -> 2
          [] r = "m5" -> 2 [] r = "m6" -> 3 [] r = "m7" -> 3 [] r = "m8" -> 4
          [] r = "m9" -> 2 [] r = "m10" -> 2 [] r = "m11" -> 4 [] r = "m12" -> 4]

mixed_traffic_rule_dict ==
    [r \in {"m17", "m13", "m14", "m2", "m15", "m3", "m4", "m16", "m5", "m6", "m7",
            "m8", "m9", "m10", "m11", "m12"} |->
        CASE r = "m17" -> 1 [] r = "m13" -> 1 [] r = "m14" -> 2 [] r = "m2" -> 2
          [] r = "m15" -> 2 [] r = "m3" -> 2 [] r = "m4" -> 2 [] r = "m16" -> 2
          [] r = "m5" -> 2 [] r = "m6" -> 3 [] r = "m7" -> 3 [] r = "m8" -> 4
          [] r = "m9" -> 2 [] r = "m10" -> 3 [] r = "m11" -> 4 [] r = "m12" -> 4]

mixed_traffic(df) ==
    LET r == resolve(df)
    IN  IF r.raised # "none" THEN r
        ELSE Returned([i \in DOMAIN r.df |->
                 score(r.df[i],
                       np_select(mixed_traffic_conditions(r.df[i]), mixed_traffic_values, "m0"),
                       mixed_traffic_rule_dict)])

---------------------------------------------------------------------------
(* The speed text parser *)

NoneCell == [t |-> "none", v |-> 0]

\* float(text): an integer numeral, blanks around it allowed, or 'nan'; any
\* other text raises ValueError.
py_float(s) ==
    IF AllDigits(strip(s)) THEN [err |-> "none", v |-> FloatCell(DigitsVal(strip(s)) * 100000)]
    ELSE IF strip(s) = S_nan THEN [err |-> "none", v |-> NaNv]
    ELSE [err |-> "ValueError", v |-> NaNv]

\* knots * 1.15078; the numerals the model parses are whole numbers, and NaN
\* times a number is NaN.
knots_to_mph(c) == IF c.t = "float" THEN FloatCell((c.v \div 100000) * 115078) ELSE c

\* parse_speed(speed_string): the value returned, or the exception raised.  A
\* number that is not NaN falls off the end of the function, which returns None.
parse_speed(c) ==
    IF c.t = "str"
    THEN IF contains(c.v, <<"m", "p", "h">>) THEN py_float(split_0(c.v))
         ELSE IF contains(c.v, <<"k", "n", "o", "t", "s">>)
              THEN LET f == py_float(split_0(c.v))
                   IN  [err |-> f.err, v |-> knots_to_mph(f.v)]
              ELSE py_float(c.v)
    ELSE IF isna(c) THEN [err |-> "none", v |-> NaNv]
    ELSE [err |-> "none", v |-> NoneCell]

\* clean_speeds(gdf_edges, key, units): adds the column key_units in place.
clean_speeds(df) ==
    IF \E i \in DOMAIN df : parse_speed(df[i]["maxspeed"]).err # "none"
    THEN Raised("ValueError", df)
    ELSE Returned([i \in DOMAIN df |->
                     SetCell(df[i], "maxspeed_mph", parse_speed(df[i]["maxspeed"]).v)])

---------------------------------------------------------------------------
(* The frames a run starts from *)

SpeedSlack == 1
MaxLanes == 6

Row(bicycle, access, highway, footway, cycleway, cycleway_right, parking_lane, lanes, maxspeed, width, motor_vehicle, service) ==
    [bicycle |-> bicycle, access |-> access, highway |-> highway, footway |-> footway,
     cycleway |-> cycleway, lanes |-> lanes, maxspeed |-> maxspeed, width |-> width,
     motor_vehicle |-> motor_vehicle, service |-> service]
    @@ ("cycleway:right" :> cycleway_right) @@ ("parking:lane" :> parking_lane)

\* An edge that carries nothing but its highway tag.
Untagged(highway) ==
    Row(NaN, NaN, highway, NaN, NaN, NaN, NaN, NaNv, NaNv, NaNv, NaN, NaN)

\* The rows whose tags the splitting classifiers read.
TagRows ==
    {Row(b, a, h, f, c, cr, p, NaNv, NaNv, NaNv, NaN, NaN) :
        b \in {NaN, "no", "yes"}, a \in {NaN, "no"},
        h \in {"motorway", "motorway_link", "proposed", "footway", "path", "cycleway",
               "residential"},
        f \in {NaN, "sidewalk", "crossing"},
        c \in {NaN, "track", "opposite_track", "lane"}, cr \in {NaN, "track"},
        p \in {NaN, "parallel"}}

\* A frame of the rows given, indexed <<1, 1>>, <<2, 1>>, ...
SmallFrame(rows) == [i \in {<<k, 1>> : k \in 1..Len(rows)} |-> rows[i[1]]]

\* The frame with the column shoulder:access:bicycle, which an input may lack.
WithShoulder(df, first) ==
    [i \in DOMAIN df |->
        ("shoulder:access:bicycle" :> IF i = <<1, 1>> THEN first ELSE NaN) @@ df[i]]

\* The small frames that start with the row given: the row alone, with and
\* without the shoulder column; the same edge twice; and the row followed by
\* an untagged residential street and a motorway.
TagFrames(row) ==
    {SmallFrame(<<row>>),
     WithShoulder(SmallFrame(<<row>>), "yes"),
     WithShoulder(SmallFrame(<<row, row>>), NaN),
     SmallFrame(<<row, Untagged("residential"), Untagged("motorway")>>)}

\* The rows that reach the mixed-traffic scorer, but for speed and lanes.
MixedContexts ==
    {Row(NaN, NaN, h, NaN, NaN, NaN, NaN, NaNv, NaNv, NaNv, mv, NaN) :
        h \in {"residential", "pedestrian", "track", "primary"}, mv \in {NaN, "no"}}
    \cup {Row(NaN, NaN, "service", NaN, NaN, NaN, NaN, NaNv, NaNv, NaNv, mv, sv) :
        mv \in {NaN, "no"}, sv \in {NaN, "alley", "parking_aisle", "driveway"}}
    \cup {Row(NaN, NaN, "footway", "crossing", NaN, NaN, NaN, NaNv, NaNv, NaNv, mv, NaN) :
        mv \in {NaN, "no"}}

\* The rows that reach the two bike-lane scorers, but for speed and lanes; the
\* widths drawn lie about the bounds the scorer compares with.
LaneContexts ==
    {Row(NaN, NaN, h, NaN, "lane", NaN, "parallel", NaNv, NaNv, w, NaN, NaN) :
        h \in {"residential", "primary"},
        w \in {NaNv, StrCell(S_narrow), FloatCell(410000), FloatCell(425000),
               FloatCell(450000), FloatCell(460000), IntCell(4), IntCell(5)}}
    \cup {Row(NaN, NaN, h, NaN, "lane", NaN, NaN, NaNv, NaNv, w, NaN, NaN) :
        h \in {"residential", "primary"},
        w \in {NaNv, StrCell(S_narrow), FloatCell(170000), FloatCell(180000)}}

\* Rows without parking whose width is a Python int.  The column that holds
\* them holds text as well (ObjectWidthFrame), so that it is an object column
\* and its integers stay integers.
IntWidthContexts ==
    {Row(NaN, NaN, h, NaN, "lane", NaN, NaN, NaNv, NaNv, w, NaN, NaN) :
        h \in {"residential", "primary"}, w \in {IntCell(1), IntCell(2)}}

\* The speeds drawn: missing, text, and the integers about each bound the
\* scorers compare with.  A grid row's first index names its speed.
SpeedValues == {t + d : t \in {35, 40, 50, 55, 65}, d \in (0 - SpeedSlack)..SpeedSlack}
SpeedIndex == {1, 2, 3, 4} \cup SpeedValues
SpeedCell(k) ==
    CASE k = 1 -> NaNv
      [] k = 2 -> StrCell(S_national)
      [] k = 3 -> StrCell(S_50)
      [] k = 4 -> StrCell(S_30)
      [] OTHER -> IntCell(k)

\* The lane counts drawn: 0..MaxLanes, missing, text, and multi-valued.  A
\* grid row's second index names its lanes.
LaneIndex == 0..MaxLanes \cup {101, 102, 103, 104, 105}
LaneCell(k) ==
    CASE k = 101 -> NaNv
      [] k = 102 -> StrCell(S_3)
      [] k = 103 -> ListCell(<<IntCell(1), IntCell(4)>>)
      [] k = 104 -> ListCell(<<StrCell(S_2), StrCell(S_3)>>)
      [] k = 105 -> ListCell(<<IntCell(0), IntCell(0)>>)
      [] OTHER -> IntCell(k)

\* One row for every speed and lane count drawn, all with the tags of base.
GridFrame(base) ==
    [i \in SpeedIndex \X LaneIndex |->
        [base EXCEPT !["maxspeed"] = SpeedCell(i[1]), !["lanes"] = LaneCell(i[2])]]

\* The grid of base and, at index <<0, 0>>, a row whose width is text.
ObjectWidthFrame(base) ==
    (<<0, 0>> :> [base EXCEPT !["width"] = StrCell(S_narrow)]) @@ GridFrame(base)

\* Frames with a malformed row: text that is no numeral in maxspeed or lanes.
BadFrames ==
    {SmallFrame(<<base, [base EXCEPT !["maxspeed"] = StrCell(S_35_mph)]>>) :
        base \in {Untagged("residential")}}
    \cup {SmallFrame(<<[base EXCEPT !["lanes"] = StrCell(S_narrow)], base>>) :
        base \in {Untagged("residential")}}

NoCall == [call |-> "none", first |-> EmptyFrame, second |-> EmptyFrame]

Fresh ==
    /\ gdf_allowed = EmptyFrame /\ gdf_not_allowed = EmptyFrame
    /\ separated = EmptyFrame /\ not_separated = EmptyFrame
    /\ to_analyze = EmptyFrame /\ no_lane = EmptyFrame
    /\ parking_detected = EmptyFrame /\ parking_not_detected = EmptyFrame
    /\ re_out = NoCall /\ done = {} /\ raised = "none"

InitTags ==
    /\ \E row \in TagRows : gdf_edges \in TagFrames(row)
    /\ Fresh

InitGrid ==
    /\ \/ \E base \in MixedContexts \cup LaneContexts : gdf_edges = GridFrame(base)
       \/ \E base \in IntWidthContexts : gdf_edges = ObjectWidthFrame(base)
       \/ gdf_edges \in BadFrames
    /\ Fresh

Init == InitTags \/ InitGrid

---------------------------------------------------------------------------
(* The calls, made in the order of the pipeline: the four splits, then the  *)
(* three scorers, each on the result routed to it.                         *)

Running == raised = "none" /\ "again" \notin done

BikingPermitted ==
    /\ Running /\ done = {}
    /\ LET r == biking_permitted(gdf_edges)
       IN  /\ gdf_edges' = r.arg
           /\ gdf_allowed' = r.allowed
           /\ gdf_not_allowed' = r.not_allowed
    /\ done' = done \cup {"biking_permitted"}
    /\ UNCHANGED <<separated, not_separated, to_analyze, no_lane, parking_detected,
                   parking_not_detected, re_out, raised>>

IsSeparatedPath ==
    /\ Running /\ done = {"biking_permitted"}
    /\ LET r == is_separated_path(gdf_allowed)
       IN  /\ gdf_allowed' = r.arg
           /\ separated' = r.separated
           /\ not_separated' = r.not_separated
    /\ done' = done \cup {"is_separated_path"}
    /\ UNCHANGED <<gdf_edges, gdf_not_allowed, to_analyze, no_lane, parking_detected,
                   parking_not_detected, re_out, raised>>

IsBikeLane ==
    /\ Running /\ done = {"biking_permitted", "is_separated_path"}
    /\ LET r == is_bike_lane(not_separated)
       IN  /\ to_analyze' = r.to_analyze
           /\ no_lane' = r.no_lane
    /\ done' = done \cup {"is_bike_lane"}
    /\ UNCHANGED <<gdf_edges, gdf_allowed, gdf_not_allowed, separated, not_separated,
                   parking_detected, parking_not_detected, re_out, raised>>

ParkingPresent ==
    /\ Running /\ done = {"biking_permitted", "is_separated_path", "is_bike_lane"}
    /\ LET r == parking_present(to_analyze)
       IN  /\ parking_detected' = r.parking_detected
           /\ parking_not_detected' = r.parking_not_detected
    /\ done' = done \cup {"parking_present"}
    /\ UNCHANGED <<gdf_edges, gdf_allowed, gdf_not_allowed, separated, not_separated,
                   to_analyze, no_lane, re_out, raised>>

BikeLaneAnalysisWithParking ==
    /\ Running /\ "parking_present" \in done /\ "with_parking" \notin done
    /\ "mixed_traffic" \in done
    /\ LET r == bike_lane_analysis_with_parking(parking_detected)
       IN  /\ parking_detected' = r.df
           /\ raised' = r.raised
    /\ done' = done \cup {"with_parking"}
    /\ UNCHANGED <<gdf_edges, gdf_allowed, gdf_not_allowed, separated, not_separated,
                   to_analyze, no_lane, parking_not_detected, re_out>>

BikeLaneAnalysisNoParking ==
    /\ Running /\ "with_parking" \in done /\ "no_parking" \notin done
    /\ LET r == bike_lane_analysis_no_parking(parking_not_detected)
       IN  /\ parking_not_detected' = r.df
           /\ raised' = r.raised
    /\ done' = done \cup {"no_parking"}
    /\ UNCHANGED <<gdf_edges, gdf_allowed, gdf_not_allowed, separated, not_separated,
                   to_analyze, no_lane, parking_detected, re_out>>

MixedTraffic ==
    /\ Running /\ "parking_present" \in done /\ "mixed_traffic" \notin done
    /\ LET r == mixed_traffic(no_lane)
       IN  /\ no_lane' = r.df
           /\ raised' = r.raised
    /\ done' = done \cup {"mixed_traffic"}
    /\ UNCHANGED <<gdf_edges, gdf_allowed, gdf_not_allowed, separated, not_separated,
                   to_analyze, parking_detected, parking_not_detected, re_out>>

\* A classifier run again on a result it has just returned; the run ends there.
AgainNotAllowed ==
    /\ Running /\ done = {"biking_permitted"}
    /\ LET r == biking_permitted(gdf_not_allowed)
       IN  /\ gdf_not_allowed' = r.arg
           /\ re_out' = [call |-> "biking_permitted(gdf_not_allowed)",
                         first |-> r.allowed, second |-> r.not_allowed]
    /\ done' = done \cup {"again"}
    /\ UNCHANGED <<gdf_edges, gdf_allowed, separated, not_separated, to_analyze, no_lane,
                   parking_detected, parking_not_detected, raised>>

AgainAllowed ==
    /\ Running /\ done = {"biking_permitted"}
    /\ LET r == biking_permitted(gdf_allowed)
       IN  /\ gdf_allowed' = r.arg
           /\ re_out' = [call |-> "biking_permitted(gdf_allowed)",
                         first |-> r.allowed, second |-> r.not_allowed]
    /\ done' = done \cup {"again"}
    /\ UNCHANGED <<gdf_edges, gdf_not_allowed, separated, not_separated, to_analyze,
                   no_lane, parking_detected, parking_not_detected, raised>>

AgainNotSeparated ==
    /\ Running /\ done = {"biking_permitted", "is_separated_path"}
    /\ LET r == is_separated_path(not_separated)
       IN  /\ not_separated' = r.arg
           /\ re_out' = [call |-> "is_separated_path(not_separated)",
                         first |-> r.separated, second |-> r.not_separated]
    /\ done' = done \cup {"again"}
    /\ UNCHANGED <<gdf_edges, gdf_allowed, gdf_not_allowed, separated, to_analyze,
                   no_lane, parking_detected, parking_not_detected, raised>>

Next ==
    \/ BikingPermitted
    \/ IsSeparatedPath
    \/ IsBikeLane
    \/ ParkingPresent
    \/ BikeLaneAnalysisWithParking
    \/ BikeLaneAnalysisNoParking
    \/ MixedTraffic
    \/ AgainNotAllowed
    \/ AgainAllowed
    \/ AgainNotSeparated

Spec == Init /\ [][Next]_vars

---------------------------------------------------------------------------
(* The speed parser, run over a frame *)

\* The maxspeed cells the parser is given: missing, text with and without a
\* unit, malformed text, and speeds that are numbers already.
ParseCells ==
    {NaNv, StrCell(S_35_mph), StrCell(S_10_knots), StrCell(S_50), StrCell(S_30),
     StrCell(S_national), IntCell(35), IntCell(50), FloatCell(3500000),
     FloatCell(5000000)}

ParseFrames ==
    {SmallFrame(<<[Untagged("residential") EXCEPT !["maxspeed"] = c]>>) : c \in ParseCells}
    \cup {SmallFrame(<<[Untagged("residential") EXCEPT !["maxspeed"] = c],
                       [Untagged("primary") EXCEPT !["maxspeed"] = d]>>) :
             c \in ParseCells, d \in ParseCells}

InitParse == gdf_edges \in ParseFrames /\ Fresh

CleanSpeeds ==
    /\ Running /\ done = {}
    /\ LET r == clean_speeds(gdf_edges)
       IN  /\ gdf_edges' = r.df
           /\ raised' = r.raised
    /\ done' = done \cup {"clean_speeds"}
    /\ UNCHANGED <<gdf_allowed, gdf_not_allowed, separated, not_separated, to_analyze,
                   no_lane, parking_detected, parking_not_detected, re_out>>

NextParse == CleanSpeeds

SpecParse == InitParse /\ [][NextParse]_vars

---------------------------------------------------------------------------
(* Which scorers have returned: the scorers run one after another, so an    *)
(* exception is the last call's.                                           *)

MixedReturned == "mixed_traffic" \in done /\ (raised = "none" \/ "with_parking" \in done)
WithParkingReturned ==
    "with_parking" \in done /\ (raised = "none" \/ "no_parking" \in done)
NoParkingReturned == "no_parking" \in done /\ raised = "none"

---------------------------------------------------------------------------
(* C1 *)

\* Two results that split a frame: no row in both, every row in one.
Splits(df, first, second) ==
    /\ DOMAIN first \cap DOMAIN second = {}
    /\ DOMAIN first \cup DOMAIN second = DOMAIN df

\* C1: each of the four splitting classifiers returns two frames that are
\* disjoint and together hold exactly the rows of the frame it was given.
C1_Partition ==
    /\ "biking_permitted" \in done => Splits(gdf_edges, gdf_allowed, gdf_not_allowed)
    /\ "is_separated_path" \in done => Splits(gdf_allowed, separated, not_separated)
    /\ "is_bike_lane" \in done => Splits(not_separated, to_analyze, no_lane)
    /\ "parking_present" \in done =>
           Splits(to_analyze, parking_detected, parking_not_detected)

\* All four classifiers have run and each has put a row on either side,
\* but for the lane split, whose other side is the untagged street's.
C1_Witness ==
    /\ "parking_present" \in done
    /\ gdf_allowed # EmptyFrame /\ gdf_not_allowed # EmptyFrame
    /\ not_separated # EmptyFrame
    /\ to_analyze # EmptyFrame /\ no_lane # EmptyFrame
    /\ parking_detected # EmptyFrame

---------------------------------------------------------------------------
(* C2 *)

\* The rule is the value of the earliest condition that is true, and the
\* default only when none is.
FirstMatch(conditions, values, default, rule) ==
    \/ \E k \in DOMAIN conditions :
          /\ conditions[k]
          /\ \A j \in 1..(k - 1) : ~conditions[j]
          /\ rule = values[k]
    \/ /\ \A k \in DOMAIN conditions : ~conditions[k]
       /\ rule = default

\* C2: in each of the five cascades the rule given to a row is that of the
\* first predicate, in the order listed, that holds of the row, and the
\* default only when none holds; bicycle = 'no' on a motorway is p2.
C2_FirstMatchWins ==
    /\ "biking_permitted" \in done =>
          \A i \in DOMAIN gdf_edges :
             /\ FirstMatch(biking_permitted_conditions(gdf_edges[i]),
                           biking_permitted_values, "p0", gdf_edges[i]["rule"])
             /\ gdf_edges[i]["bicycle"] = "no" /\ gdf_edges[i]["highway"] = "motorway"
                   => gdf_edges[i]["rule"] = "p2"
    /\ "is_separated_path" \in done =>
          \A i \in DOMAIN gdf_allowed :
             FirstMatch(is_separated_path_conditions(gdf_allowed, gdf_allowed[i]),
                        is_separated_path_values, "s0", gdf_allowed[i]["rule"])
    /\ WithParkingReturned =>
          \A i \in DOMAIN parking_detected :
             FirstMatch(with_parking_conditions(parking_detected[i]),
                        with_parking_values, "b1", parking_detected[i]["rule"])
    /\ NoParkingReturned =>
          \A i \in DOMAIN parking_not_detected :
             FirstMatch(no_parking_conditions(parking_not_detected[i]),
                        no_parking_values, "c1", parking_not_detected[i]["rule"])
    /\ MixedReturned =>
          \A i \in DOMAIN no_lane :
             FirstMatch(mixed_traffic_conditions(no_lane[i]),
                        mixed_traffic_values, "m0", no_lane[i]["rule"])

\* A row that two predicates of a cascade hold of: by its first index,
\* predicates k and a later one.
TwoHold(conditions, k) ==
    conditions[k] /\ \E j \in (k + 1)..Len(conditions) : conditions[j]

\* A motorway with bicycle = 'no' has been given p2, and in the same run the
\* mixed-traffic scorer has given m9 to a row that m10 holds of as well.
C2_Witness ==
    /\ MixedReturned
    /\ \E i \in DOMAIN gdf_edges :
          /\ TwoHold(biking_permitted_conditions(gdf_edges[i]), 1)
          /\ gdf_edges[i]["highway"] = "motorway" /\ gdf_edges[i]["rule"] = "p2"
    /\ \E i \in DOMAIN no_lane :
          TwoHold(mixed_traffic_conditions(no_lane[i]), 13) /\ no_lane[i]["rule"] = "m9"

---------------------------------------------------------------------------
(* C3 *)

\* The lts cell is one of 1, 2, 3, 4.
HasLts(row) == "lts" \in DOMAIN row /\ row["lts"].t = "int" /\ row["lts"].v \in 1..4

---------------------------------------------------------------------------
(* C4 *)

\* highway = 'residential' and no other tag.
IsUntaggedResidential(row) ==
    /\ row["highway"] = "residential"
    /\ isna(row["maxspeed"]) /\ isna(row["lanes"])
    /\ row["cycleway"] = NaN /\ row["cycleway:right"] = NaN /\ row["parking:lane"] = NaN
    /\ row["bicycle"] = NaN /\ row["access"] = NaN /\ row["footway"] = NaN
    /\ row["motor_vehicle"] = NaN /\ row["service"] = NaN
    /\ "shoulder:access:bicycle" \in DOMAIN row => row["shoulder:access:bicycle"] = NaN

\* C4: an untagged residential street is given p0 and allowed, is given s0
\* and not separated, has no lane, and is scored by the mixed-traffic scorer
\* with maxspeed_assumed 50, lanes_assumed 2, rule m9 and lts 2.
C4_UntaggedResidential ==
    \A i \in DOMAIN gdf_edges :
       IsUntaggedResidential(gdf_edges[i]) =>
          /\ "biking_permitted" \in done =>
                gdf_edges[i]["rule"] = "p0" /\ i \in DOMAIN gdf_allowed
          /\ "is_separated_path" \in done =>
                gdf_allowed[i]["rule"] = "s0" /\ i \in DOMAIN not_separated
          /\ "is_bike_lane" \in done => i \in DOMAIN no_lane
          /\ MixedReturned =>
                /\ no_lane[i]["maxspeed_assumed"] = 50
                /\ no_lane[i]["lanes_assumed"] = 2
                /\ no_lane[i]["rule"] = "m9"
                /\ no_lane[i]["lts"] = IntCell(2)

\* The mixed-traffic scorer has scored an untagged residential street.
C4_Witness ==
    /\ MixedReturned
    /\ \E i \in DOMAIN no_lane :
          IsUntaggedResidential(gdf_edges[i]) /\ "lts" \in DOMAIN no_lane[i]

---------------------------------------------------------------------------
(* C5 *)

\* The six predicates that deny cycling.
Denied(row) ==
    \/ row["bicycle"] = "no"
    \/ row["access"] = "no"
    \/ row["highway"] \in {"motorway", "motorway_link", "proposed"}
    \/ /\ row["footway"] = "sidewalk" /\ row["bicycle"] # "yes"
       /\ row["highway"] \in {"footway", "path"}

\* The frames the later classifiers and the scorers return.
Downstream ==
    <<separated, not_separated, to_analyze, no_lane, parking_detected,
      parking_not_detected>>

\* C5: as biking_permitted returns, every row of allowed has rule p0, every
\* row of not_allowed a rule among p2, p6, p3, p4, p7, p5; a motorway with no
\* bicycle = 'no' and no access = 'no' is given p3.  From then on no row of
\* allowed is denied by any of the six predicates, and no row of not_allowed
\* is in a frame a later classifier or a scorer returns, or has an lts.
C5_NoProhibitedEdgeScored ==
    "biking_permitted" \in done =>
       /\ done = {"biking_permitted"} =>
             \A i \in DOMAIN gdf_allowed : gdf_allowed[i]["rule"] = "p0"
       /\ \A i \in DOMAIN gdf_allowed :
             ~Denied(gdf_allowed[i]) /\ gdf_edges[i]["rule"] = "p0"
       /\ \A i \in DOMAIN gdf_not_allowed :
             /\ gdf_not_allowed[i]["rule"] \in {"p2", "p6", "p3", "p4", "p7", "p5"}
             /\ Denied(gdf_not_allowed[i])
             /\ "lts" \notin DOMAIN gdf_not_allowed[i]
             /\ \A k \in DOMAIN Downstream : i \notin DOMAIN Downstream[k]
             /\ /\ gdf_not_allowed[i]["highway"] = "motorway"
                /\ gdf_not_allowed[i]["bicycle"] # "no"
                /\ gdf_not_allowed[i]["access"] # "no"
                => gdf_not_allowed[i]["rule"] = "p3"
       /\ \A i \in DOMAIN gdf_edges :
             gdf_edges[i]["highway"] = "motorway" => i \in DOMAIN gdf_not_allowed
       /\ \A k \in DOMAIN Downstream : \A i \in DOMAIN Downstream[k] :
             ~Denied(Downstream[k][i])

\* The scorers have run on a frame that held a motorway given p3 and an
\* edge that was scored.
C5_Witness ==
    /\ MixedReturned
    /\ \E i \in DOMAIN gdf_not_allowed :
          gdf_not_allowed[i]["highway"] = "motorway" /\ gdf_not_allowed[i]["rule"] = "p3"
    /\ \E i \in DOMAIN no_lane : "lts" \in DOMAIN no_lane[i]

---------------------------------------------------------------------------
(* C6 *)

\* C6: biking_permitted run on its not_allowed returns no allowed row and
\* every row as not_allowed, with the rule it had; run on its allowed it
\* returns every row as allowed; is_separated_path run on its not_separated
\* returns every row as not_separated.
C6_Idempotent ==
    /\ re_out.call = "biking_permitted(gdf_not_allowed)" =>
          /\ re_out.first = EmptyFrame
          /\ DOMAIN re_out.second = DOMAIN gdf_not_allowed
          /\ \A i \in DOMAIN re_out.second :
                re_out.second[i]["rule"] = gdf_edges[i]["rule"]
    /\ re_out.call = "biking_permitted(gdf_allowed)" =>
          /\ re_out.second = EmptyFrame
          /\ DOMAIN re_out.first = DOMAIN gdf_allowed
          /\ \A i \in DOMAIN re_out.first : re_out.first[i]["rule"] = "p0"
    /\ re_out.call = "is_separated_path(not_separated)" =>
          /\ re_out.first = EmptyFrame
          /\ DOMAIN re_out.second = DOMAIN not_separated

\* biking_permitted has been run again on a not_allowed that holds a row.
C6_Witness ==
    /\ re_out.call = "biking_permitted(gdf_not_allowed)"
    /\ re_out.second # EmptyFrame
    /\ gdf_allowed # EmptyFrame

---------------------------------------------------------------------------
(* C7 *)

\* The frames the scorers are given, which get_lanes adds lanes_assumed to.
Resolved == <<no_lane, parking_detected, parking_not_detected>>

\* A lanes cell that is missing, an integer, or several integers.
IntegerLanes(c) ==
    \/ c.t \in {"nan", "int"}
    \/ c.t = "list" /\ \A k \in DOMAIN c.v : c.v[k].t = "int"

TaggedLanes(c) == IF c.t = "int" THEN {c.v} ELSE {c.v[k].v : k \in DOMAIN c.v}

\* The default when lanes is missing, else the largest tagged value.
ExpectedLanes(c) ==
    IF isna(c) THEN 2
    ELSE CHOOSE m \in TaggedLanes(c) : \A v \in TaggedLanes(c) : v <= m

\* C7, as claimed: after get_lanes every row with integer lanes has a
\* lanes_assumed that is at least 1, and is the default (2) when lanes is
\* missing and the largest tagged value otherwise, a tagged 0 included.
C7_LanesAtLeastOne ==
    \A f \in DOMAIN Resolved : \A i \in DOMAIN Resolved[f] :
       LET row == Resolved[f][i]
       IN  "lanes_assumed" \in DOMAIN row /\ IntegerLanes(row["lanes"]) =>
              /\ row["lanes_assumed"] >= 1
              /\ row["lanes_assumed"] = ExpectedLanes(row["lanes"])

\* C7, amended: after get_lanes every row with integer lanes has a
\* lanes_assumed that is the default (2) when lanes is missing and the largest
\* tagged value otherwise; it is at least 1 exactly when lanes is missing or
\* some tagged value is at least 1, so a tagged 0 gives lanes_assumed = 0.
C7_LanesDefaultOrMax ==
    \A f \in DOMAIN Resolved : \A i \in DOMAIN Resolved[f] :
       LET row == Resolved[f][i]
       IN  "lanes_assumed" \in DOMAIN row /\ IntegerLanes(row["lanes"]) =>
              /\ row["lanes_assumed"] = ExpectedLanes(row["lanes"])
              /\ row["lanes_assumed"] >= 1 <=>
                    \/ isna(row["lanes"])
                    \/ \E v \in TaggedLanes(row["lanes"]) : v >= 1

\* get_lanes has resolved a tagged 0 to 0, missing lanes to 2 and the lanes
\* 1 and 4 of one edge to 4.
C7_Witness ==
    \E f \in DOMAIN Resolved :
       /\ \E i \in DOMAIN Resolved[f] :
             /\ "lanes_assumed" \in DOMAIN Resolved[f][i]
             /\ Resolved[f][i]["lanes"] = IntCell(0)
             /\ Resolved[f][i]["lanes_assumed"] = 0
       /\ \E i \in DOMAIN Resolved[f] :
             isna(Resolved[f][i]["lanes"]) /\ Resolved[f][i]["lanes_assumed"] = 2
       /\ \E i \in DOMAIN Resolved[f] :
             /\ Resolved[f][i]["lanes"] = ListCell(<<IntCell(1), IntCell(4)>>)
             /\ Resolved[f][i]["lanes_assumed"] = 4

---------------------------------------------------------------------------
(* C8 *)

\* The parser's result is missing or empty.
Missing(c) == c.t \in {"nan", "none"}

\* C8, as claimed: clean_speeds raises when a row's maxspeed is malformed
\* text ('national'); when it returns, '35 mph' has become 35.0, '10 knots'
\* 11.5078, '50' 50.0, a missing maxspeed is missing, and no maxspeed that is
\* not missing, a number included, has become a missing or empty result.
C8_MissingOnlyForMissing ==
    "clean_speeds" \in done =>
       /\ (\E i \in DOMAIN gdf_edges : eq_str(gdf_edges[i]["maxspeed"], S_national))
             => raised = "ValueError"
       /\ raised = "none" =>
             \A i \in DOMAIN gdf_edges :
                LET in == gdf_edges[i]["maxspeed"]
                    out == gdf_edges[i]["maxspeed_mph"]
                IN  /\ eq_str(in, S_35_mph) => out = FloatCell(3500000)
                    /\ eq_str(in, S_10_knots) => out = FloatCell(1150780)
                    /\ eq_str(in, S_50) => out = FloatCell(5000000)
                    /\ isna(in) => isna(out)
                    /\ ~isna(in) => ~Missing(out)

---------------------------------------------------------------------------
(* C9 *)

SameTags(r1, r2) ==
    /\ r1["motor_vehicle"] = r2["motor_vehicle"] /\ r1["highway"] = r2["highway"]
    /\ r1["footway"] = r2["footway"] /\ r1["service"] = r2["service"]

\* C9: of two rows the mixed-traffic scorer has scored that agree on
\* motor_vehicle, highway, footway and service, the one with the greater or
\* equal maxspeed_assumed and lanes_assumed has the greater or equal lts.
C9_MixedTrafficMonotone ==
    MixedReturned =>
       \A i \in DOMAIN no_lane : \A j \in DOMAIN no_lane :
          /\ SameTags(no_lane[i], no_lane[j])
          /\ no_lane[j]["maxspeed_assumed"] >= no_lane[i]["maxspeed_assumed"]
          /\ no_lane[j]["lanes_assumed"] >= no_lane[i]["lanes_assumed"]
          => no_lane[j]["lts"].v >= no_lane[i]["lts"].v

\* Two scored rows with the same tags, the second faster and wider, the
\* first with lts 2 and the second with lts 4.
C9_Witness ==
    /\ MixedReturned
    /\ \E i \in DOMAIN no_lane : \E j \in DOMAIN no_lane :
          /\ SameTags(no_lane[i], no_lane[j])
          /\ no_lane[j]["maxspeed_assumed"] > no_lane[i]["maxspeed_assumed"]
          /\ no_lane[j]["lanes_assumed"] > no_lane[i]["lanes_assumed"]
          /\ no_lane[i]["lts"] = IntCell(2) /\ no_lane[j]["lts"] = IntCell(4)

---------------------------------------------------------------------------
(* C10 *)

\* The width is a number, an integer or a float, that is at most 1.7.
NumberAtMost_1_7(c) ==
    \/ c.t = "float" /\ c.v <= 170000
    \/ c.t = "int" /\ c.v * 100000 <= 170000

\* C10, as claimed: the no-parking scorer gives lts 4 exactly when
\* maxspeed_assumed > 65 and the width is no number <= 1.7; a row with a
\* numeric width <= 1.7 and fewer than 3 lanes is given c4 and lts 2 at every
\* speed; a row whose width was text is never given c4.
C10_NoParkingLts4 ==
    NoParkingReturned =>
       \A i \in DOMAIN parking_not_detected :
          LET row == parking_not_detected[i]
          IN  /\ row["lts"] = IntCell(4) <=>
                    row["maxspeed_assumed"] > 65 /\ ~NumberAtMost_1_7(row["width"])
              /\ NumberAtMost_1_7(row["width"]) /\ row["lanes_assumed"] < 3 =>
                    row["rule"] = "c4" /\ row["lts"] = IntCell(2)
              /\ gdf_edges[i]["width"].t = "str" => row["rule"] # "c4"

===========================================================================
